---- MODULE Spec2Model ----
(***************************************************************************)
(* cppformat.h: the fragment buffer (fstring_outputbuffer), the format     *)
(* scanner (fstring_state), the reference-counting wrapper (fstring), the  *)
(* binding operators and the to_string helper.                             *)
(*                                                                         *)
(* A std::string is a sequence of one-character strings; offsets are the   *)
(* code's 0-based size_t offsets, so format[i] is format[i + 1] here.      *)
(***************************************************************************)
EXTENDS Integers, Sequences, FiniteSets, TLC

VARIABLES
    sizeof_bfr,   \* sizeof(std::string) of the build (line 46)
    heap,         \* the fstring_state objects allocated so far, by address 1..
    deleted,      \* per address: how many times `delete this` ran on it
    history,      \* per address: what the client has done to the object so far
    handles,      \* per client variable: the address in its `state`, 0 = not alive
    err,          \* what the last operation threw, "none" if nothing
    out,          \* what the last str()/to_string call returned
    last,         \* the last operation and its arguments
    fate,         \* "defined", or how undefined behaviour ended the run
    buf,          \* a stand-alone fstring_outputbuffer
    join          \* the running to_string call: arguments and loop position

vars == <<sizeof_bfr, heap, deleted, history, handles, err, out, last,
          fate, buf, join>>

\* ------------------------------------------------------------------ bounds
MaxTemplateLen == 4     \* templates are all strings of at most this length
MaxStates == 2          \* fstring_state objects ever allocated
MaxHandles == 2         \* named fstring variables of the client
MaxFragments == 4       \* an operation starts only below this many fragments
MaxRenderLen == 34      \* longest rendered text handed to append_fmt alone
MaxJoin == 3            \* longest value sequence handed to to_string
MaxBufFragments == 2    \* append_fmt alone starts only below this many fragments

\* ------------------------------------------------------- strings (std::string)
npos == 2147483647      \* std::string::npos, above every offset

Alphabet == {"%", "d", "s"}
StringsUpTo(n) == UNION {[1..k -> Alphabet] : k \in 0..n}
Templates == StringsUpTo(MaxTemplateLen)

Min(a, b) == IF a < b THEN a ELSE b

\* str.find(c, pos)
find(str, c, pos) ==
    LET hits == {i \in pos..(Len(str) - 1) : str[i + 1] = c}
    IN IF pos >= Len(str) \/ hits = {} THEN npos
       ELSE CHOOSE i \in hits : \A j \in hits : i <= j

\* str.find_first_of(chars, pos)
find_first_of(str, chars, pos) ==
    LET hits == {i \in pos..(Len(str) - 1) :
                    \E k \in 1..Len(chars) : chars[k] = str[i + 1]}
    IN IF pos >= Len(str) \/ hits = {} THEN npos
       ELSE CHOOSE i \in hits : \A j \in hits : i <= j

\* str.substr(pos, n); the caller checks pos <= size (else out_of_range)
substr(str, pos, n) ==
    IF n >= Len(str) - pos THEN SubSeq(str, pos + 1, Len(str))
    ELSE SubSeq(str, pos + 1, pos + n)

RECURSIVE Concat(_)
Concat(frags) ==
    IF frags = <<>> THEN <<>> ELSE Head(frags) \o Concat(Tail(frags))

\* ------------------------------------------- fstring_outputbuffer (lines 31-79)
NUL == "NUL"

\* fstring_outputbuffer(): length(0)
NewBuffer == [fragments |-> <<>>, length |-> 0]

\* append(str) as it would be with fragments.push_front(str)
appendFront(b, str) ==
    [fragments |-> <<str>> \o b.fragments, length |-> b.length + Len(str)]

\* append(str)
append(b, str) ==
    [fragments |-> Append(b.fragments, str), length |-> b.length + Len(str)]

\* str() const
collect(b) == Concat(b.fragments)

\* The two outcomes of one renderer call: it reports r >= 0 and the text of
\* that length, or it reports an encoding failure r < 0.
Rendered(text) == [r |-> Len(text), text |-> text]
Failed(r) == [r |-> r, text |-> <<>>]

\* std::string bfr(16, '\0')
GuessSize == 16
Nuls(n) == [i \in 1..n |-> NUL]

\* vsnprintf(&bfr[0], n, fstr, ap): at most n - 1 characters and a NUL
vsnprintf(bfr, n, rend) ==
    IF rend.r < 0 \/ n = 0 THEN bfr
    ELSE LET k == Min(n - 1, rend.r)
         IN [i \in 1..Len(bfr) |->
                IF i <= k THEN rend.text[i] ELSE IF i = k + 1 THEN NUL ELSE bfr[i]]

\* bfr.resize(n): truncates, or pads with '\0'
resize(bfr, n) ==
    [i \in 1..n |-> IF i <= Len(bfr) THEN bfr[i] ELSE NUL]

\* An int used where a size_t is expected: a negative int converts to a
\* value above every std::string size (and above max_size()).
TooBig(i) == i < 0
GeSize(i, n) == TooBig(i) \/ i >= n

LengthError == "std::length_error"
FormatError == "Format error"

\* Lines 54-60: bfr.resize(r), the r < 0 check, push_back, length += r
append_fmt_store(b, bfr, r) ==
    IF TooBig(r) THEN [buf |-> b, exc |-> LengthError]
    ELSE IF r < 0 THEN [buf |-> b, exc |-> FormatError]
    ELSE [buf |-> [fragments |-> Append(b.fragments, resize(bfr, r)),
                   length |-> b.length + r],
          exc |-> "none"]

\* Lines 46-53: the second attempt, when r + 1 >= sizeof(bfr)
append_fmt_retry(b, bfr, r, rend2) ==
    IF ~GeSize(r + 1, sizeof_bfr) THEN append_fmt_store(b, bfr, r)
    ELSE IF TooBig(r + 1) THEN [buf |-> b, exc |-> LengthError]
    ELSE append_fmt_store(b, vsnprintf(resize(bfr, r + 1), r + 1, rend2), rend2.r)

\* append_fmt(fstr, ...): rend1 and rend2 are what the first and the second
\* vsnprintf call report.
append_fmt(b, rend1, rend2) ==
    append_fmt_retry(b, vsnprintf(Nuls(GuessSize), GuessSize, rend1), rend1.r, rend2)

\* ------------------------------------------------- fstring_state (lines 85-143)
NotFound == "Format not found"
InvalidFormat == "Invalid format"
FormatMismatch == "Format mismatch"
OutOfRange == "std::out_of_range"

\* fstring_state(fmt): fstart(0), fend(0), format(fmt), references(1)
fstring_state(fmt) ==
    [fstart |-> 0, fend |-> 0, format |-> fmt, result |-> NewBuffer,
     references |-> 1]

\* retain()
retain(s) == [s EXCEPT !.references = @ + 1]

\* release(): the decrement; the caller deletes the object when it reads 0
release(s) == [s EXCEPT !.references = @ - 1]

RECURSIVE next_fmt(_, _)

\* Lines 116-128: ++fend, then the `%%` branch or the check and the return
next_fmt_end(s, chars) ==
    IF s.format[s.fend] = "%"
    THEN next_fmt([s EXCEPT !.result = append(@, <<"%">>)], chars)
    ELSE IF find(chars, s.format[s.fend], 0) = npos
    THEN [st |-> s, exc |-> FormatMismatch, ret |-> <<>>]
    ELSE [st |-> s, exc |-> "none",
          ret |-> substr(s.format, s.fstart, s.fend - s.fstart)]

\* Lines 112-114: fend = format.find_first_of(chars, fstart + 1)
next_fmt_find(s, chars) ==
    IF s.fend = npos THEN [st |-> s, exc |-> InvalidFormat, ret |-> <<>>]
    ELSE next_fmt_end([s EXCEPT !.fend = @ + 1], chars)

\* Lines 105-112 as they would be had the text been copied before the test
\* for a directive
next_fmt_startCopyingFirst(s, chars) ==
    IF (IF s.fstart = npos THEN TRUE ELSE s.fstart + 1 = Len(s.format))
    THEN [st |-> [s EXCEPT !.result =
                     append(@, substr(s.format, Min(s.fend, Len(s.format)),
                                      s.fstart - s.fend))],
          exc |-> NotFound, ret |-> <<>>]
    ELSE next_fmt_find(
             [s EXCEPT !.result = append(@, substr(s.format, s.fend,
                                                    s.fstart - s.fend)),
                       !.fend = find_first_of(s.format, chars, s.fstart + 1)],
             chars)

\* Lines 105-112, with fstart assigned and fend still the old cursor
next_fmt_start(s, chars) ==
    IF (IF s.fstart = npos THEN TRUE ELSE s.fstart + 1 = Len(s.format))
    THEN [st |-> s, exc |-> NotFound, ret |-> <<>>]
    ELSE next_fmt_find(
             [s EXCEPT !.result = append(@, substr(s.format, s.fend,
                                                    s.fstart - s.fend)),
                       !.fend = find_first_of(s.format, chars, s.fstart + 1)],
             chars)

\* next_fmt(chars): one turn of the while(1) loop per call
next_fmt(s, chars) ==
    next_fmt_start([s EXCEPT !.fstart = find(s.format, "%", s.fend)], chars)

\* reset() as it would be had it left the cursors where they were
resetKeepingCursors(s) ==
    IF s.fend > Len(s.format) THEN [st |-> s, exc |-> OutOfRange]
    ELSE [st |-> [s EXCEPT !.result = append(@, substr(s.format, s.fend, npos))],
          exc |-> "none"]

\* reset(): format.substr(fend) throws when fend is past the end
reset(s) ==
    IF s.fend > Len(s.format) THEN [st |-> s, exc |-> OutOfRange]
    ELSE [st |-> [s EXCEPT !.result = append(@, substr(s.format, s.fend, npos)),
                           !.fstart = 0, !.fend = 0],
          exc |-> "none"]

\* str() as it would be had it returned the tail without keeping it
strNotStoring(s) ==
    IF s.fend > Len(s.format) THEN [st |-> s, exc |-> OutOfRange, ret |-> <<>>]
    ELSE [st |-> s, exc |-> "none",
          ret |-> collect(append(s.result, substr(s.format, s.fend, npos)))]

\* str() as it would be without the append of the tail
strWithoutTail(s) ==
    [st |-> s, exc |-> "none", ret |-> collect(s.result)]

\* str()
str(s) ==
    IF s.fend > Len(s.format) THEN [st |-> s, exc |-> OutOfRange, ret |-> <<>>]
    ELSE [st |-> [s EXCEPT !.result = append(@, substr(s.format, s.fend, npos))],
          exc |-> "none",
          ret |-> collect(append(s.result, substr(s.format, s.fend, npos)))]

\* ------------------------------------------------ the renderer (printf family)
\* The values the client binds: int and std::string / const char *.
IntValues == {7, -12}
StrValues == {<<"a">>}
Values == [type : {"int"}, val : IntValues] \cup [type : {"string"}, val : StrValues]

Digit(n) == <<"0", "1", "2", "3", "4", "5", "6", "7", "8", "9">>[n + 1]
RECURSIVE Decimal(_)
Decimal(n) ==
    IF n < 0 THEN <<"-">> \o Decimal(-n)
    ELSE IF n < 10 THEN <<Digit(n)>>
    ELSE Decimal(n \div 10) \o <<Digit(n % 10)>>

\* The conversion characters of printf and the argument type each expects
\* (after default argument promotion).
Conversions == {"d", "i", "u", "x", "X", "o", "f", "F", "e", "E", "g", "G",
                "c", "s", "p"}
Expects(c) ==
    CASE c \in {"d", "i"} -> "int"
      [] c \in {"u", "x", "X", "o"} -> "unsigned"
      [] c \in {"f", "F", "e", "E", "g", "G"} -> "double"
      [] c = "c" -> "char"
      [] c = "s" -> "string"
      [] c = "p" -> "pointer"

\* The text of one converted value
Convert(v) == IF v.type = "int" THEN Decimal(v.val) ELSE v.val

\* What printf makes of format fstr from offset i on with the one argument v;
\* used: the argument has been consumed.  ub: the call has undefined
\* behaviour (a conversion without an argument left, a conversion of the
\* wrong type, an incomplete or unknown conversion specification).
RECURSIVE Printf(_, _, _, _)
Prefixed(text, rest) == [ub |-> rest.ub, text |-> text \o rest.text]
Printf(fstr, i, v, used) ==
    IF i > Len(fstr) THEN [ub |-> FALSE, text |-> <<>>]
    ELSE IF fstr[i] # "%" THEN Prefixed(<<fstr[i]>>, Printf(fstr, i + 1, v, used))
    ELSE IF i = Len(fstr) THEN [ub |-> TRUE, text |-> <<>>]
    ELSE IF fstr[i + 1] = "%" THEN Prefixed(<<"%">>, Printf(fstr, i + 2, v, used))
    ELSE IF fstr[i + 1] \notin Conversions \/ used \/ Expects(fstr[i + 1]) # v.type
    THEN [ub |-> TRUE, text |-> <<>>]
    ELSE Prefixed(Convert(v), Printf(fstr, i + 2, v, TRUE))

\* What a vsnprintf call on (fstr, v) reports.  Where the call has undefined
\* behaviour, ub picks among what can follow: the process ends ("crash"),
\* the call reports a failure ("fail"), the call produces some text ("text").
UBChoices == {"crash", "fail", "text"}
Reported(p, ub) ==
    IF ~p.ub THEN Rendered(p.text)
    ELSE IF ub = "fail" THEN Failed(-1)
    ELSE Rendered(<<"?">>)
Outcome(fstr, v, ub) == Reported(Printf(fstr, 1, v, FALSE), ub)
Undefined(fstr, v) == Printf(fstr, 1, v, FALSE).ub

\* How a statement with undefined behaviour ended: the process ended in it,
\* or it ran on.  Nothing is said of what a run does after either.
Fate(undefined, ub) ==
    IF ~undefined THEN "defined" ELSE IF ub = "crash" THEN "crashed" ELSE "survived"

\* ------------------------------------------------------ fstring (lines 146-171)
\* The memory: w.heap[a] is the fstring_state at address a (its bytes stay
\* as they were after delete) and w.deleted[a] counts the deletes of a.
EmptyMemory == [heap |-> <<>>, deleted |-> <<>>]

\* new fstring_state(fmt)
New(w, fmt) ==
    [heap |-> Append(w.heap, fstring_state(fmt)),
     deleted |-> Append(w.deleted, 0)]

\* state->retain()
Retain(w, a) == [w EXCEPT !.heap[a] = retain(@)]

\* state->release(): if(--references == 0) delete this
Release(w, a) ==
    [w EXCEPT !.heap[a] = release(@),
              !.deleted[a] = IF w.heap[a].references = 1 THEN @ + 1 ELSE @]

\* Line 162: return fstring(*this), unless append_fmt threw or the process
\* ended in it
printfmt_return(w, a, af, fa) ==
    IF fa = "crashed" THEN [w |-> w, exc |-> "none", fate |-> fa]
    ELSE IF af.exc # "none" THEN [w |-> w, exc |-> af.exc, fate |-> fa]
    ELSE [w |-> Retain([w EXCEPT !.heap[a].result = af.buf], a),
          exc |-> "none", fate |-> fa]

\* Line 161: state->outbuffer().append_fmt(fstr.c_str(), rhs); the two
\* vsnprintf calls get the same arguments and report the same
printfmt_render(w, a, fstr, rend, fa) ==
    printfmt_return(w, a, append_fmt(w.heap[a].result, rend, rend), fa)

\* Lines 160-161, with nf what next_fmt returned or threw
printfmt_next(w, a, nf, rhs, ub) ==
    IF nf.exc # "none"
    THEN [w |-> [w EXCEPT !.heap[a] = nf.st], exc |-> nf.exc, fate |-> "defined"]
    ELSE printfmt_render([w EXCEPT !.heap[a] = nf.st], a, nf.ret,
                         Outcome(nf.ret, rhs, ub), Fate(Undefined(nf.ret, rhs), ub))

\* printfmt(fmtChars, rhs) on the state at a.  On success the returned
\* temporary fstring(*this) is alive and holds a.
printfmt(w, a, fmtChars, rhs, ub) ==
    printfmt_next(w, a, next_fmt(w.heap[a], fmtChars), rhs, ub)

\* The overloads of operator% (lines 173-180): the conversion characters
\* each argument type is bound with.
CharsFor(type) ==
    CASE type = "string" -> <<"s">>
      [] type = "char" -> <<"c">>
      [] type = "int" -> <<"d", "i">>
      [] type = "unsigned" -> <<"u", "x", "X", "o">>
      [] type = "double" -> <<"f", "F", "e", "E", "g", "G">>
      [] type = "pointer" -> <<"p">>

\* operator%(lhs, rhs)
Percent(w, a, v, ub) == printfmt(w, a, CharsFor(v.type), v, ub)

\* The temporary a call returned is destroyed at the end of its statement
DropTemporary(p, a) ==
    IF p.exc # "none" \/ p.fate = "crashed" THEN p
    ELSE [p EXCEPT !.w = Release(@, a)]

\* `return lhs` of operator%= (line 184): a copy of lhs
ReturnCopy(p, a) ==
    IF p.exc # "none" \/ p.fate = "crashed" THEN p
    ELSE [p EXCEPT !.w = Retain(@, a)]

\* operator%= as it would be had it returned lhs without binding
PercentAssignUnbound(w, a, v, ub) ==
    [w |-> Retain(w, a), exc |-> "none", fate |-> "defined"]

\* operator%=(lhs, rhs): `lhs % rhs;` (its temporary dies at the semicolon),
\* then `return lhs` copies lhs.
PercentAssign(w, a, v, ub) ==
    ReturnCopy(DropTemporary(Percent(w, a, v, ub), a), a)

\* fstring::append(str) as it would be had it also set fend back to 0
ExtendRewinding(w, a, text) ==
    Retain([w EXCEPT !.heap[a].result = append(@, text), !.heap[a].fend = 0], a)

\* fstring::append(str): appends and returns fstring(*this)
Extend(w, a, text) ==
    Retain([w EXCEPT !.heap[a].result = append(@, text)], a)

\* ------------------------------------------------------- the client's statements
Handles == 1..MaxHandles
Texts == {<<",">>}            \* what the client appends between values
SizeofString == {24, 32}      \* sizeof(std::string): libc++, libstdc++ (LP64)

Memory == [heap |-> heap, deleted |-> deleted]
SetMemory(w) ==
    /\ heap' = w.heap
    /\ deleted' = w.deleted

\* The record of a statement in history: the values bound to the object so
\* far, whether a bind on it has thrown, and how many of extend, reset and
\* str it has gone through.
Untouched == [bound |-> <<>>, failed |-> FALSE, others |-> 0]
Recorded(op, exc) ==
    LET a == handles[op.h]
    IN CASE op.op = "construct" -> Append(history, Untouched)
         [] op.op = "copy" ->
              IF Len(heap') > Len(heap) THEN Append(history, history[handles[op.arg]])
              ELSE history
         [] op.op \in {"bind", "combined_bind"} ->
              IF exc = "none" THEN [history EXCEPT ![a].bound = Append(@, op.arg)]
              ELSE [history EXCEPT ![a].failed = TRUE]
         [] op.op \in {"extend", "reset", "str"} ->
              IF exc = "none" THEN [history EXCEPT ![a].others = @ + 1]
              ELSE history
         [] OTHER -> history

NoOp == [op |-> "none", h |-> 0, arg |-> <<>>]
Idle == [pc |-> "idle"]

\* h holds the address of an object that has been deleted
Dangling(h) == handles[h] # 0 /\ deleted[handles[h]] > 0
Room(h) == Len(heap[handles[h]].result.fragments) < MaxFragments

\* The statement ran to its end or left by an exception (fa = "defined"),
\* or had undefined behaviour and ended the process in it or ran on.
Done(w, hs, exc, ret, op, fa) ==
    /\ fate' = fa
    /\ last' = op
    /\ IF fa = "crashed"
       THEN UNCHANGED <<heap, deleted, history, handles, err, out>>
       ELSE /\ SetMemory(w)
            /\ history' = Recorded(op, exc)
            /\ handles' = hs
            /\ err' = exc
            /\ out' = ret
    /\ UNCHANGED <<sizeof_bfr, buf, join>>

\* A use of a deleted object is undefined: the process ends, or the
\* statement runs on the bytes the object left behind.
Use(h, ub) == Fate(Dangling(h), ub)

\* The end of a statement on the object h holds, p what it made of the memory
DoneWith(p, h, ret, op, ub) ==
    Done(p.w, handles, p.exc, ret, op, IF Dangling(h) THEN Use(h, ub) ELSE p.fate)

\* fstring h(t);
Construct(h, t) ==
    /\ fate = "defined" /\ handles[h] = 0 /\ Len(heap) < MaxStates
    /\ Done(New(Memory, t), [handles EXCEPT ![h] = Len(heap) + 1], "none", <<>>,
            [op |-> "construct", h |-> h, arg |-> t], "defined")

\* fstring h2(h1) as it would be had the copy constructor cloned the state
CopyConstructDeep(h2, h1, ub) ==
    /\ fate = "defined" /\ handles[h2] = 0 /\ handles[h1] # 0
    /\ Done([heap |-> Append(heap, [heap[handles[h1]] EXCEPT !.references = 1]),
             deleted |-> Append(deleted, 0)],
            [handles EXCEPT ![h2] = Len(heap) + 1], "none", <<>>,
            [op |-> "copy", h |-> h2, arg |-> h1], Use(h1, ub))

\* fstring h2(h1);
CopyConstruct(h2, h1, ub) ==
    LET op == [op |-> "copy", h |-> h2, arg |-> h1]
    IN /\ fate = "defined" /\ handles[h2] = 0 /\ handles[h1] # 0
       /\ Done(Retain(Memory, handles[h1]),
               [handles EXCEPT ![h2] = handles[h1]], "none", <<>>, op, Use(h1, ub))

\* h2 = h1;  fstring declares no operator=, so the implicit one copies the
\* member `state` and calls neither retain() nor release().
Assign(h2, h1) ==
    /\ fate = "defined" /\ h1 # h2 /\ handles[h2] # 0 /\ handles[h1] # 0
    /\ Done(Memory, [handles EXCEPT ![h2] = handles[h1]], "none", <<>>,
            [op |-> "assign", h |-> h2, arg |-> h1], "defined")

\* h leaves its scope: ~fstring()
Destroy(h, ub) ==
    LET op == [op |-> "destroy", h |-> h, arg |-> <<>>]
    IN /\ fate = "defined" /\ handles[h] # 0
       /\ Done(Release(Memory, handles[h]), [handles EXCEPT ![h] = 0],
               "none", <<>>, op, Use(h, ub))

\* What `h % v;` makes of the memory: operator%, then the temporary it
\* returned is destroyed.
BindStatement(w, a, v, ub) == DropTemporary(Percent(w, a, v, ub), a)

\* What `h %= v;` makes of the memory
CombinedBindStatement(w, a, v, ub) ==
    DropTemporary(PercentAssign(w, a, v, ub), a)

\* What `h = h % v;` makes of the memory: the assignment copies the
\* temporary's pointer into h, which held the same pointer.
BindAndAssignStatement(w, a, v, ub) == DropTemporary(Percent(w, a, v, ub), a)

\* h % v;
Bind(h, v, ub) ==
    /\ fate = "defined" /\ handles[h] # 0 /\ Room(h)
    /\ DoneWith(BindStatement(Memory, handles[h], v, ub), h, <<>>,
                [op |-> "bind", h |-> h, arg |-> v], ub)

\* h %= v;
CombinedBind(h, v, ub) ==
    /\ fate = "defined" /\ handles[h] # 0 /\ Room(h)
    /\ DoneWith(CombinedBindStatement(Memory, handles[h], v, ub), h, <<>>,
                [op |-> "combined_bind", h |-> h, arg |-> v], ub)

\* h.append(text);
ExtendHandle(h, text, ub) ==
    LET op == [op |-> "extend", h |-> h, arg |-> text]
    IN /\ fate = "defined" /\ handles[h] # 0 /\ Room(h)
       /\ Done(Release(Extend(Memory, handles[h], text), handles[h]),
               handles, "none", <<>>, op, Use(h, ub))

\* The end of a call of a member of the object h holds, r what it returned
Returned(r, h, ret, op, ub) ==
    Done([Memory EXCEPT !.heap[handles[h]] = r.st], handles, r.exc, ret, op,
         Use(h, ub))
ReturnedText(r, h, op, ub) == Returned(r, h, r.ret, op, ub)

\* h.reset();
ResetHandle(h, ub) ==
    /\ fate = "defined" /\ handles[h] # 0 /\ Room(h)
    /\ Returned(reset(heap[handles[h]]), h, <<>>,
                [op |-> "reset", h |-> h, arg |-> <<>>], ub)

\* h.str();  also `cout << h` (operator<<, lines 187-189)
Finalize(h, ub) ==
    /\ fate = "defined" /\ handles[h] # 0 /\ Room(h)
    /\ ReturnedText(str(heap[handles[h]]), h,
                    [op |-> "str", h |-> h, arg |-> <<>>], ub)

\* --------------------------------------------- a fstring_outputbuffer alone
\* What vsnprintf can report of one call: a text of any length up to
\* MaxRenderLen, or an encoding failure
RenderTexts == {[i \in 1..n |-> "x"] : n \in 0..MaxRenderLen}
Failures == {Failed(-1), Failed(-2)}
Renderings == {Rendered(t) : t \in RenderTexts} \cup Failures

\* The end of a member call on buf, r what it made of buf or threw
BufDone(r, ret, op) ==
    /\ buf' = r.buf
    /\ err' = r.exc
    /\ out' = ret
    /\ last' = op
    /\ UNCHANGED <<sizeof_bfr, heap, deleted, history, handles, fate, join>>

\* buf.append_fmt(fstr, ...); the first vsnprintf call reports rend1, the
\* second, if there is one, rend2
BufAppendFmt(rend1, rend2) ==
    /\ fate = "defined" /\ Len(buf.fragments) < MaxBufFragments
    /\ BufDone(append_fmt(buf, rend1, rend2), <<>>,
               [op |-> "append_fmt", h |-> 0, arg |-> <<rend1, rend2>>])

\* buf.append(text);
BufAppend(text) ==
    /\ fate = "defined" /\ Len(buf.fragments) < MaxBufFragments
    /\ BufDone([buf |-> append(buf, text), exc |-> "none"], <<>>,
               [op |-> "append", h |-> 0, arg |-> text])

\* buf.str();
BufStr ==
    /\ fate = "defined"
    /\ BufDone([buf |-> buf, exc |-> "none"], collect(buf),
               [op |-> "buf_str", h |-> 0, arg |-> <<>>])

\* ------------------------------------------------------ to_string (lines 191-203)
SeqsUpTo(S, n) == UNION {[1..k -> S] : k \in 0..n}

\* The ranges [begin, end) of one iter_t: values of one type
Ranges ==
    {vals \in SeqsUpTo(Values, MaxJoin) :
        \A i, j \in DOMAIN vals : vals[i].type = vals[j].type}

\* The end of a step of to_string on its local fmt at a: an exception
\* unwinds through ~fstring() of fmt
JoinDone(p, a, jn, ret) ==
    /\ fate' = p.fate
    /\ IF p.fate = "crashed" THEN UNCHANGED <<heap, deleted, err, out, join>>
       ELSE IF p.exc # "none"
       THEN /\ SetMemory(Release(p.w, a))
            /\ err' = p.exc
            /\ out' = <<>>
            /\ join' = [jn EXCEPT !.pc = "threw"]
       ELSE /\ SetMemory(p.w)
            /\ err' = "none"
            /\ out' = ret
            /\ join' = jn
    /\ UNCHANGED <<sizeof_bfr, handles, buf>>

\* Line 195: fmt %= *(i++); with begin == end it reads *end
JoinFirst(w, a, vals, ub) ==
    IF vals = <<>> THEN [w |-> w, exc |-> "none", fate |-> Fate(TRUE, ub)]
    ELSE CombinedBindStatement(w, a, vals[1], ub)

\* Lines 193-195: fstring fmt(fstr); auto i = begin; fmt %= *(i++);
ToStringStart(fstr, vals, sep, ub) ==
    /\ fate = "defined" /\ join = Idle
    /\ last' = [op |-> "to_string", h |-> 0, arg |-> <<>>]
    /\ history' = Append(history, Untouched)
    /\ JoinDone(JoinFirst(New(Memory, fstr), Len(heap) + 1, vals, ub),
                Len(heap) + 1,
                [pc |-> "loop", fmt |-> Len(heap) + 1, fstr |-> fstr,
                 vals |-> vals, sep |-> sep, i |-> 2],
                <<>>)

\* Lines 197-199, with r what fmt.reset() returned or threw
JoinTurn(w, a, r, sep, v, ub) ==
    IF r.exc # "none" THEN [w |-> w, exc |-> r.exc, fate |-> "defined"]
    ELSE CombinedBindStatement(
             Release(Extend([w EXCEPT !.heap[a] = r.st], a, sep), a), a, v, ub)

\* Lines 196-200: one turn of while(i != end)
ToStringLoop(ub) ==
    /\ fate = "defined" /\ join.pc = "loop" /\ join.i <= Len(join.vals)
    /\ UNCHANGED <<last, history>>
    /\ JoinDone(JoinTurn(Memory, join.fmt, reset(heap[join.fmt]), join.sep,
                         join.vals[join.i], ub),
                join.fmt, [join EXCEPT !.i = @ + 1], <<>>)

\* Line 201, with r what fmt.str() returned or threw; fmt is destroyed
JoinFinish(w, a, r) ==
    IF r.exc # "none" THEN [w |-> w, exc |-> r.exc, fate |-> "defined"]
    ELSE [w |-> Release([w EXCEPT !.heap[a] = r.st], a), exc |-> "none",
          fate |-> "defined"]

\* Line 201: return fmt.str();
ToStringReturn ==
    /\ fate = "defined" /\ join.pc = "loop" /\ join.i > Len(join.vals)
    /\ UNCHANGED <<last, history>>
    /\ JoinDone(JoinFinish(Memory, join.fmt, str(heap[join.fmt])), join.fmt,
                [join EXCEPT !.pc = "returned"], str(heap[join.fmt]).ret)

Init ==
    /\ sizeof_bfr \in SizeofString
    /\ heap = <<>>
    /\ deleted = <<>>
    /\ history = <<>>
    /\ handles = [h \in Handles |-> 0]
    /\ err = "none"
    /\ out = <<>>
    /\ last = NoOp
    /\ fate = "defined"
    /\ buf = NewBuffer
    /\ join = Idle

\* A client with one fstring variable f, which formats one template
f == 1
Next ==
    \/ \E t \in Templates : heap = <<>> /\ Construct(f, t)
    \/ \E v \in Values, ub \in UBChoices : Bind(f, v, ub)
    \/ \E v \in Values, ub \in UBChoices : CombinedBind(f, v, ub)
    \/ \E text \in Texts, ub \in UBChoices : ExtendHandle(f, text, ub)
    \/ \E ub \in UBChoices : ResetHandle(f, ub)
    \/ \E ub \in UBChoices : Finalize(f, ub)
    \/ \E ub \in UBChoices : Destroy(f, ub)

Spec == Init /\ [][Next]_vars

\* A client with several fstring variables over one template, which copies,
\* assigns and destroys them
ShareTemplates == {<<"%", "d", "s", "%", "d">>}
ShareValues == [type : {"int"}, val : IntValues]
NextShare ==
    \/ \E h \in Handles, t \in ShareTemplates : Construct(h, t)
    \/ \E h2, h1 \in Handles, ub \in UBChoices : CopyConstruct(h2, h1, ub)
    \/ \E h2, h1 \in Handles : Assign(h2, h1)
    \/ \E h \in Handles, ub \in UBChoices : Destroy(h, ub)
    \/ \E h \in Handles, v \in ShareValues, ub \in UBChoices : Bind(h, v, ub)
    \/ \E h \in Handles, ub \in UBChoices : Finalize(h, ub)

SpecShare == Init /\ [][NextShare]_vars

\* A client that formats one template through f and copies of f
CopyTemplates == {<<"%", "d", "s", "%", "d">>, <<"%", "s", "%", "d">>}
NextCopy ==
    \/ \E t \in CopyTemplates : heap = <<>> /\ Construct(f, t)
    \/ \E h2, h1 \in Handles, ub \in UBChoices : CopyConstruct(h2, h1, ub)
    \/ \E h2, h1 \in Handles : Assign(h2, h1)
    \/ \E h \in Handles, ub \in UBChoices : Destroy(h, ub)
    \/ \E h \in Handles, v \in Values, ub \in UBChoices : Bind(h, v, ub)
    \/ \E h \in Handles, ub \in UBChoices : Finalize(h, ub)

SpecCopy == Init /\ [][NextCopy]_vars

\* A client of fstring_outputbuffer alone
NextRender ==
    \/ \E rend1 \in Renderings, rend2 \in {Failed(-1)} :
           \/ BufAppendFmt(rend1, rend1)
           \/ BufAppendFmt(rend1, rend2)
    \/ \E text \in Texts : BufAppend(text)
    \/ BufStr

SpecRender == Init /\ [][NextRender]_vars

\* A client that calls to_string once
JoinTemplates ==
    StringsUpTo(MaxJoin) \cup {<<"%", "d", "%", "d">>, <<"%", "d", "s", "%", "s">>}
NextJoin ==
    \/ \E fstr \in JoinTemplates, vals \in Ranges,
          sep \in Texts, ub \in UBChoices : ToStringStart(fstr, vals, sep, ub)
    \/ \E ub \in UBChoices : ToStringLoop(ub)
    \/ ToStringReturn

SpecJoin == Init /\ [][NextJoin]_vars

\* ------------------------------------------- what the documentation describes
\* The template read as documented: `%%` is an escape, and a directive runs
\* from a `%` to the first conversion character after it.
ConversionChars ==
    <<"d", "i", "u", "x", "X", "o", "f", "F", "e", "E", "g", "G", "c", "s", "p">>

\* The first directive of format at or after offset pos: its conversion
\* character c and the offset past it.  c is "none" when only text and
\* `%%` remain or a lone `%` ends the format, "malformed" when a `%` has no
\* conversion character after it.
RECURSIVE NextDirective(_, _)
NextDirective(format, pos) ==
    IF pos >= Len(format) THEN [c |-> "none", end |-> Len(format)]
    ELSE IF format[pos + 1] # "%" THEN NextDirective(format, pos + 1)
    ELSE IF pos + 1 = Len(format) THEN [c |-> "none", end |-> Len(format)]
    ELSE IF format[pos + 2] = "%" THEN NextDirective(format, pos + 2)
    ELSE LET e == find_first_of(format, ConversionChars, pos + 1)
         IN IF e = npos THEN [c |-> "malformed", end |-> Len(format)]
            ELSE [c |-> format[e + 1], end |-> e + 1]

\* type is bound with conversion character c
Binds(type, c) == find(CharsFor(type), c, 0) # npos

\* vals are as many values as format has directives from pos on, each of a
\* type its directive is bound with
RECURSIVE Matches(_, _, _)
Matches(format, pos, vals) ==
    LET d == NextDirective(format, pos)
    IN IF d.c = "none" THEN vals = <<>>
       ELSE /\ d.c # "malformed"
            /\ vals # <<>>
            /\ Binds(Head(vals).type, d.c)
            /\ Matches(format, d.end, Tail(vals))

\* The documented result of formatting vals with format from pos on: text
\* as it is, `%%` as `%`, each directive as the rendering of its value
RECURSIVE Intended(_, _, _)
Intended(format, pos, vals) ==
    IF pos >= Len(format) THEN <<>>
    ELSE IF format[pos + 1] # "%"
    THEN <<format[pos + 1]>> \o Intended(format, pos + 1, vals)
    ELSE IF pos + 1 = Len(format) THEN <<"%">>
    ELSE IF format[pos + 2] = "%" THEN <<"%">> \o Intended(format, pos + 2, vals)
    ELSE LET d == NextDirective(format, pos)
         IN Printf(SubSeq(format, pos + 1, d.end), 1, Head(vals), FALSE).text
                \o Intended(format, d.end, Tail(vals))

\* The step is a bind through a live handle / a str through a live handle
BindStep == last'.op \in {"bind", "combined_bind"} /\ fate = "defined"
StrStep == last'.op = "str" /\ fate = "defined"

\* ------------------------------------------------------------------ claims

\* C1: when the values bound to a template are as many as its directives
\* and of matching types, str() returns the template's text and the
\* rendered values in the template's order, every `%%` as one `%`,
\* the literal tail included.
C1_FinalizeInterleaves ==
    \A a \in DOMAIN heap :
        ( /\ fate = "defined" /\ last.op = "str" /\ handles[last.h] = a
          /\ history[a].others = 1 /\ ~history[a].failed
          /\ Matches(heap[a].format, 0, history[a].bound) )
        => out = Intended(heap[a].format, 0, history[a].bound)

\* C2: a bind of a type whose conversion characters do not include the
\* conversion character of the next directive throws "Format mismatch".
C2_MismatchFails ==
    [][ BindStep =>
          LET s == heap[handles[last'.h]]
              d == NextDirective(s.format, s.fend)
          IN (d.c \notin {"none", "malformed"} /\ ~Binds(last'.arg.type, d.c))
             => (fate' = "defined" /\ err' = FormatMismatch) ]_vars

\* C6: a bind with no directive at or after fend (the template is used up,
\* only text and `%%` remain, or a lone `%` ends it) throws
\* "Format not found".
C6_ExhaustedFails ==
    [][ BindStep =>
          LET s == heap[handles[last'.h]]
          IN NextDirective(s.format, s.fend).c = "none"
             => (fate' = "defined" /\ err' = NotFound) ]_vars

\* C10: str() on a state with directives left after fend, on which no bind
\* has thrown, throws nothing and returns the accumulated fragments
\* followed by the template from fend to its end as it is written.
C10_FinalizePassesTail ==
    [][ StrStep =>
          LET a == handles[last'.h]
              s == heap[a]
          IN (~history[a].failed /\ NextDirective(s.format, s.fend).c # "none")
             => /\ fate' = "defined"
                /\ err' = "none"
                /\ out' = collect(s.result)
                             \o SubSeq(s.format, s.fend + 1, Len(s.format)) ]_vars

\* C10 happens: a str() after a bind, with a directive still unresolved
C10_Witness ==
    /\ last.op = "str" /\ err = "none" /\ handles[last.h] # 0
    /\ LET a == handles[last.h]
       IN /\ history[a].bound # <<>>
          /\ ~history[a].failed
          /\ history[a].others = 1
          /\ NextDirective(heap[a].format, heap[a].fend).c = "d"
          /\ out # <<>>

\* The step leaves memory, error and handles as p says
LeftAs(p) ==
    /\ fate' = p.fate
    /\ fate' # "crashed" =>
         /\ heap' = p.w.heap
         /\ deleted' = p.w.deleted
         /\ err' = p.exc
         /\ handles' = handles

\* C9: `h %= v` leaves the object h holds (cursors, fragments, count) as
\* `h = h % v` leaves it, leaves h holding the same object, and throws
\* what `h = h % v` throws.
C9_CombinedBindIsBindAssign ==
    [][ (last'.op = "combined_bind" /\ fate = "defined") =>
          \E ub \in UBChoices :
              LeftAs(BindAndAssignStatement(Memory, handles[last'.h], last'.arg, ub))
      ]_vars

\* C9 happens: a `h %= v` that bound its value
C9_Witness ==
    /\ last.op = "combined_bind" /\ err = "none" /\ fate = "defined"
    /\ handles[last.h] # 0
    /\ history[handles[last.h]].bound # <<>>
    /\ heap[handles[last.h]].fend > 0


\* What str() through handle h returns after the step
FinalizedAfter(h) == str(heap'[handles'[h]]).ret

\* What str() returns after a bind of v to object s left it as t: what s
\* had accumulated, the text up to the directive, v rendered by the
\* directive, and the rest of the template
WithOneMore(s, t, v) ==
    collect(s.result)
        \o substr(s.format, s.fend, t.fstart - s.fend)
        \o Printf(substr(t.format, t.fstart, t.fend - t.fstart), 1, v, FALSE).text
        \o substr(t.format, t.fend, npos)

\* C4: a copy holds the object its source holds and adds no object; after
\* a bind of v through one handle, str() through any other handle of the
\* same object returns what was accumulated before, then v's rendering
\* once, then the tail.
C4_CopiesShare ==
    [][ /\ (last'.op = "copy" /\ fate = "defined" /\ fate' = "defined") =>
             /\ handles'[last'.h] = handles[last'.arg]
             /\ Len(heap') = Len(heap)
             /\ heap'[handles[last'.arg]] =
                    [heap[handles[last'.arg]] EXCEPT !.references = @ + 1]
        /\ (last'.op = "bind" /\ fate = "defined" /\ fate' = "defined"
                /\ err' = "none") =>
             \A h1 \in Handles :
                 (h1 # last'.h /\ handles[h1] = handles[last'.h]) =>
                     FinalizedAfter(h1) =
                         WithOneMore(heap[handles[h1]], heap'[handles[h1]], last'.arg)
      ]_vars

\* C4 happens: a second value bound through variable 2 while variable 1
\* holds the same object
C4_Witness ==
    /\ last.op = "bind" /\ last.h = 2 /\ err = "none" /\ fate = "defined"
    /\ handles[1] # 0 /\ handles[1] = handles[2]
    /\ Len(history[handles[1]].bound) = 2
    /\ heap[handles[1]].references = 2

\* C7: the count of every object is the number of live variables holding
\* it; an object is deleted once, when the last of them is destroyed, and
\* never while one still holds it.
Holders(a) == {h \in Handles : handles[h] = a}
C7_CountIsHolders ==
    \A a \in DOMAIN heap :
        /\ deleted[a] <= 1
        /\ deleted[a] = 0 => heap[a].references = Cardinality(Holders(a))
        /\ deleted[a] = 1 <=> Holders(a) = {}

\* C5: append_fmt of a text of length L > 15 appends one fragment equal to
\* the whole text and adds L to the length.
C5_LongTextComplete ==
    [][ (last'.op = "append_fmt" /\ last'.arg[1].r > GuessSize - 1
            /\ last'.arg[2] = last'.arg[1]) =>
            /\ err' = "none"
            /\ buf'.fragments = Append(buf.fragments, last'.arg[1].text)
            /\ buf'.length = buf.length + last'.arg[1].r
      ]_vars

\* C8: when the first vsnprintf call, or the second where there is one,
\* reports a negative length, append_fmt throws "Format error".
C8_NegativeIsFormatError ==
    [][ (/\ last'.op = "append_fmt"
         /\ \/ last'.arg[1].r < 0
            \/ GeSize(last'.arg[1].r + 1, sizeof_bfr) /\ last'.arg[2].r < 0) =>
            err' = FormatError
      ]_vars

\* (fstring(fstr) % v).str(): ok, unless the bind threw or was undefined
IndependentStr(p) ==
    IF p.exc # "none" \/ p.fate # "defined" THEN [ok |-> FALSE, ret |-> <<>>]
    ELSE [ok |-> TRUE, ret |-> str(p.w.heap[1]).ret]
Independent(fstr, v) ==
    IndependentStr(Percent(New(EmptyMemory, fstr), 1, v, "text"))

RECURSIVE JoinedWith(_, _)
JoinedWith(parts, sep) ==
    IF parts = <<>> THEN <<>>
    ELSE IF Len(parts) = 1 THEN parts[1].ret
    ELSE parts[1].ret \o sep \o JoinedWith(Tail(parts), sep)

\* Every value of the call is of a type the template's first directive
\* is bound with
JoinBindable ==
    /\ join.pc \in {"returned", "threw"}
    /\ Len(join.vals) >= 1
    /\ \A i \in DOMAIN join.vals :
           Binds(join.vals[i].type, NextDirective(join.fstr, 0).c)

JoinAgrees(parts) ==
    IF \A i \in DOMAIN parts : parts[i].ok
    THEN join.pc = "returned" /\ out = JoinedWith(parts, join.sep)
    ELSE join.pc = "threw"

\* C3: to_string over N >= 1 values bindable to the first directive
\* returns the N independent formats of the template, one per value, with
\* the separator between each pair.
C3_JoinIsIndependentFormats ==
    (fate = "defined" /\ JoinBindable) =>
        JoinAgrees([i \in DOMAIN join.vals |-> Independent(join.fstr, join.vals[i])])

\* C3 happens: a call over MaxJoin values and a template with text after
\* its first directive has returned
C3_Witness ==
    /\ fate = "defined" /\ JoinBindable /\ join.pc = "returned"
    /\ Len(join.vals) = MaxJoin
    /\ NextDirective(join.fstr, 0).end < Len(join.fstr)
    /\ join.vals[1] # join.vals[2]

\* The step is a reset / an append through a live handle
ResetStep == last'.op = "reset" /\ fate = "defined"
ExtendStep == last'.op = "extend" /\ fate = "defined"

\* The types of the values the client binds
Types == {v.type : v \in Values}

\* nf, what next_fmt(chars) returned, is the template from the `%` at fstart
\* to fend, ends with one of chars and has no second `%`
OneDirective(nf, chars) ==
    nf.exc = "none" =>
        /\ nf.ret = SubSeq(nf.st.format, nf.st.fstart + 1, nf.st.fend)
        /\ nf.ret # <<>>
        /\ nf.ret[1] = "%"
        /\ find(chars, nf.ret[Len(nf.ret)], 0) # npos
        /\ \A i \in 2..Len(nf.ret) : nf.ret[i] # "%"

\* C11: the directive next_fmt returns to a bind starts at the `%` at
\* fstart, ends with a character of the bound type, and holds no other `%`:
\* neither a `%%` nor the `%` of a later directive.
C11_DirectiveHasOnePercent ==
    [][ BindStep =>
          OneDirective(next_fmt(heap[handles[last'.h]], CharsFor(last'.arg.type)),
                       CharsFor(last'.arg.type)) ]_vars

\* After reset left s as t: the tail of s is the one new fragment, both
\* cursors are 0, and a bind of any type finds what it finds in a new state
ResetOf(s, t) ==
    /\ t.result.fragments =
           Append(s.result.fragments, SubSeq(s.format, s.fend + 1, Len(s.format)))
    /\ t.format = s.format
    /\ t.fstart = 0 /\ t.fend = 0
    /\ \A type \in Types :
           next_fmt(t, CharsFor(type)).ret
               = next_fmt(fstring_state(s.format), CharsFor(type)).ret

\* C12: reset() throws nothing, appends the template from fend to its end
\* as one fragment after the fragments there were, and sets both cursors
\* to 0, so that the next bind finds the first directive again.
C12_ResetAppendsTailAndRewinds ==
    [][ ResetStep =>
          /\ err' = "none"
          /\ ResetOf(heap[handles[last'.h]], heap'[handles[last'.h]]) ]_vars

\* The template of s from fend to its end
TailOf(s) == SubSeq(s.format, s.fend + 1, Len(s.format))

\* The second of two str() calls returned the first's result and the tail
TailTwice(first, second, tail) ==
    /\ second = first \o tail
    /\ second = first <=> tail = <<>>

\* C13: a str() that follows a str() on the same object, through the same
\* or another handle, returns what the first returned followed by the
\* template from fend to its end once more; the two differ unless that
\* tail is empty.
C13_SecondFinalizeAddsTail ==
    [][ (StrStep /\ last.op = "str" /\ err = "none"
            /\ handles[last.h] = handles[last'.h]) =>
          /\ err' = "none"
          /\ TailTwice(out, out', TailOf(heap[handles[last'.h]])) ]_vars

\* C13 happens: after a bind, a second str() in a row through another
\* handle of the object, with text left after fend
C13_Witness ==
    /\ last.op = "str" /\ last.h = 2 /\ err = "none" /\ fate = "defined"
    /\ handles[1] # 0 /\ handles[1] = handles[2]
    /\ history[handles[2]].others = 2
    /\ history[handles[2]].bound # <<>>
    /\ TailOf(heap[handles[2]]) # <<>>
    /\ Len(heap[handles[2]].result.fragments) = 4

\* How a statement op that threw exc may move fend from before to after
CursorMoves(op, exc, before, after) ==
    /\ op # "reset" => after >= before
    /\ (op \in {"bind", "combined_bind"} /\ exc = "none") => after > before
    /\ op \in {"extend", "str"} => after = before
    /\ op = "reset" => after \in {0, before}

\* C14: no statement but reset() lowers fend: a bind that succeeds raises
\* it, append() and str() leave it as it is, and reset() sets it to 0.
C14_EndCursorNeverDecreases ==
    [][ (fate = "defined" /\ fate' = "defined"
            /\ last'.op \in {"bind", "combined_bind", "extend", "str", "reset"}) =>
          CursorMoves(last'.op, err', heap[handles[last'.h]].fend,
                      heap'[handles[last'.h]].fend) ]_vars

\* C14 happens: two binds and an append() between them in one pass over a
\* template of two directives
C14_Witness ==
    /\ last.op \in {"bind", "combined_bind"} /\ err = "none" /\ fate = "defined"
    /\ handles[last.h] # 0
    /\ Len(history[handles[last.h]].bound) = 2
    /\ history[handles[last.h]].others = 1
    /\ heap[handles[last.h]].fstart = 2
    /\ heap[handles[last.h]].fend = Len(heap[handles[last.h]].format)

\* After append(text) left s as t: text is the one new fragment, the last,
\* nothing else of the object differs, and a bind of any type finds, or
\* throws, what it would have
ExtendOf(s, t, text) ==
    /\ t = [s EXCEPT !.result = [fragments |-> Append(s.result.fragments, text),
                                 length |-> s.result.length + Len(text)]]
    /\ \A type \in Types :
           /\ next_fmt(t, CharsFor(type)).ret = next_fmt(s, CharsFor(type)).ret
           /\ next_fmt(t, CharsFor(type)).exc = next_fmt(s, CharsFor(type)).exc

\* C15: h.append(text) adds text as one fragment after the fragments
\* there were and leaves the template and both cursors as they were, so
\* the next bind finds the directive it would have found.
C15_ExtendOnlyAppends ==
    [][ (ExtendStep /\ fate' = "defined") =>
          /\ err' = "none"
          /\ ExtendOf(heap[handles[last'.h]], heap'[handles[last'.h]], last'.arg)
      ]_vars

\* C15 happens: an append() after a bind, with a directive left to bind
C15_Witness ==
    /\ last.op = "extend" /\ err = "none" /\ fate = "defined"
    /\ handles[last.h] # 0
    /\ history[handles[last.h]].bound # <<>>
    /\ heap[handles[last.h]].fend > 0
    /\ Len(heap[handles[last.h]].result.fragments) = 3
    /\ NextDirective(heap[handles[last.h]].format, heap[handles[last.h]].fend).c = "d"

\* C16: both cursors of every object are offsets into its template, also
\* after a bind on it has thrown, so that format.substr(fend) is defined.
C16_CursorsWithinTemplate ==
    \A a \in DOMAIN heap :
        /\ 0 <= heap[a].fstart /\ heap[a].fstart <= Len(heap[a].format)
        /\ 0 <= heap[a].fend /\ heap[a].fend <= Len(heap[a].format)

\* s and t have the same fragments and fend, and str() returns, or
\* throws, the same on both
SameOutput(s, t) ==
    /\ t.result = s.result
    /\ t.fend = s.fend
    /\ str(t).ret = str(s).ret
    /\ str(t).exc = str(s).exc

\* C17: a bind that throws "Format not found" leaves the fragments and
\* fend as they were, so a str() after it returns what a str() in its
\* place would have returned.
C17_NotFoundLeavesOutput ==
    [][ (BindStep /\ fate' = "defined" /\ err' = NotFound) =>
          SameOutput(heap[handles[last'.h]], heap'[handles[last'.h]]) ]_vars

\* C17 happens: after a bind, a bind has thrown "Format not found" with
\* text left after fend
C17_Witness ==
    /\ last.op \in {"bind", "combined_bind"} /\ err = NotFound
    /\ fate = "defined" /\ handles[last.h] # 0
    /\ history[handles[last.h]].bound # <<>>
    /\ heap[handles[last.h]].fend <= Len(heap[handles[last.h]].format)
    /\ TailOf(heap[handles[last.h]]) # <<>>

====
